---- MODULE Spec2Model ----
(***************************************************************************)
(* Model of github.com/go-webdl/smoothstreaming: the initialization-       *)
(* segment builder MoovProcessor (moov_processor.go).  Every               *)
(* Create*Mp4Box method is a pure function of the receiver p; it is        *)
(* written here as an operator that returns the (box, err) pair of the Go  *)
(* method, or Panic when the method ends in a run-time panic.  One action  *)
(* per method applies it to the current processor and stores what it       *)
(* returned.                                                               *)
(*                                                                         *)
(* The manifest side of the package has two more state machines of its     *)
(* own: tl, the resolution of one stream's StreamFragment list into its    *)
(* fragments, and cu, one call of ChunkURL.                                *)
(***************************************************************************)
EXTENDS Integers, Sequences, FiniteSets, TLC

VARIABLES p, hevcOk, op, res, tl, cu

vars == <<p, hevcOk, op, res, tl, cu>>

(***************************************************************************)
(* Bounds of the model.                                                    *)
(***************************************************************************)
\* largest number of 00 00 00 01 markers in a generated CodecPrivateData
MaxNalus == 2

\* largest number of StreamFragment elements in a stream
MaxGroups == 2

(***************************************************************************)
(* Values of the Go run time and of the libraries the package imports.     *)
(***************************************************************************)
\* the nil mp4.Box
Nil == [type |-> "nil", fields |-> [none |-> 0], children |-> <<>>]

\* the nil error
NilErr == [wraps |-> "nil", msg |-> <<>>]

\* errors.go: the two sentinel errors; the message is the sentinel's text
ErrUnknownCodec == [wraps |-> "ErrUnknownCodec", msg |-> <<"codec not supported">>]

ErrInvalidParam == [wraps |-> "ErrInvalidParam", msg |-> <<"invalid parameter">>]

\* a method that returned (box, err)
Ret(box, err) == [box |-> box, err |-> err, panicked |-> FALSE]

\* a method that did not return: index out of range
Panic == [box |-> Nil, err |-> NilErr, panicked |-> TRUE]

\* a freshly allocated box of the mp4 library: a type, its fields, no child
Box(type, fields) == [type |-> type, fields |-> fields, children |-> <<>>]

\* mp4.Box.Mp4BoxReplaceChildren: the box with its child list replaced; the
\* library accepts every child list this package hands it
Mp4BoxReplaceChildren(box, children) ==
  [box |-> [box EXCEPT !.children = children], err |-> NilErr]

\* mp4.Box.Mp4BoxAppend: the box with one more child
Mp4BoxAppend(box, child) ==
  [box |-> [box EXCEPT !.children = Append(box.children, child)], err |-> NilErr]

\* mp4.Box.Mp4BoxSetType: overwrite the box type
Mp4BoxSetType(box, type) == [box EXCEPT !.type = type]

\* mp4.Box.Mp4BoxSetFlags: overwrite the full-box flags
Mp4BoxSetFlags(box, flags) == [box EXCEPT !.fields = [box.fields EXCEPT !.Flags = flags]]

\* the 4-byte start code CodecPrivateData is split on
Marker == <<0, 0, 0, 1>>

\* bytes.Index(s, sep): first position (1-based) where sep occurs, 0 if none
Index(s, sep) ==
  LET hits == {i \in 1..(Len(s) - Len(sep) + 1) : SubSeq(s, i, i + Len(sep) - 1) = sep}
  IN IF hits = {} THEN 0 ELSE CHOOSE i \in hits : \A j \in hits : i <= j

\* bytes.Split(s, sep) for a non-empty sep: the pieces between the
\* non-overlapping occurrences of sep, leftmost first; always >= 1 piece
RECURSIVE Split(_, _)
Split(s, sep) ==
  LET i == Index(s, sep)
  IN IF i = 0 THEN <<s>>
     ELSE <<SubSeq(s, 1, i - 1)>> \o Split(SubSeq(s, i + Len(sep), Len(s)), sep)

\* nalus[1:]
Tail1(nalus) == SubSeq(nalus, 2, Len(nalus))

\* avc.GetNaluType: the low five bits of the NAL header byte
AvcGetNaluType(b) == b % 32

\* hevc.GetNaluType: bits 1..6 of the first NAL header byte
HevcGetNaluType(b) == (b \div 2) % 64

AVC_NALU_SPS == 7

AVC_NALU_PPS == 8

HEVC_NALU_VPS == 32

HEVC_NALU_SPS == 33

HEVC_NALU_PPS == 34

\* the loop of CreateAvcCMp4Box: the segments whose NAL type is the given
\* one, in order; only asked of lists without an empty segment
AvcOfType(nalus, type) ==
  SelectSeq(nalus, LAMBDA n : AvcGetNaluType(n[1]) = type)

\* the loop of CreateHvcCMp4Box, likewise
HevcOfType(nalus, type) ==
  SelectSeq(nalus, LAMBDA n : HevcGetNaluType(n[1]) = type)

\* the loop reads nalu[0] of every segment after the first: it panics on an
\* empty one
HasEmptyNalu(nalus) == \E i \in 1..Len(nalus) : nalus[i] = <<>>


\* fmt.Errorf(".. %w", sentinel): an error that wraps the sentinel and whose
\* text is the format's text followed by the sentinel's
Errorf(parts, wrapped) == [wraps |-> wrapped.wraps, msg |-> parts \o wrapped.msg]

\* fmt.Errorf without %w: wraps nothing
PlainError(text) == [wraps |-> "none", msg |-> <<text>>]

\* errors.Is(err, sentinel)
ErrorsIs(err, sentinel) == err.wraps = sentinel.wraps

\* hevc.CreateHEVCDecoderConfigurationRecord(vps, sps, pps, true, true, true):
\* the codec library parses the parameter sets; whether it succeeds on them
\* (hevcOk) is outside this package
CreateHEVCDecoderConfigurationRecord(vps, sps, pps, compat, constraint, sublayer) ==
  IF hevcOk
  THEN [conf |-> [VPS |-> vps, SPS |-> sps, PPS |-> pps,
                  CompleteCompatibility |-> compat,
                  CompleteConstraint |-> constraint,
                  CompleteSubLayerOrdering |-> sublayer],
        err |-> NilErr]
  ELSE [conf |-> [VPS |-> <<>>, SPS |-> <<>>, PPS |-> <<>>,
                  CompleteCompatibility |-> FALSE,
                  CompleteConstraint |-> FALSE,
                  CompleteSubLayerOrdering |-> FALSE],
        err |-> PlainError("hevc: cannot parse parameter sets")]

(***************************************************************************)
(* A Go statement  x, err := f()  evaluates f once and names its results.  *)
(* Only({ e : x \in {f} }) is that binding: the one value of e for the     *)
(* one value x of f.                                                       *)
(***************************************************************************)
Only(S) == CHOOSE x \in S : TRUE

(***************************************************************************)
(* moov_processor.go: the codec configuration boxes.                       *)
(***************************************************************************)
CreateAvcCMp4Box(q) ==
  Only({
    LET units == Tail1(nalus)
    IN IF Len(nalus) < 1
       THEN Ret(Nil, Errorf(<<"invalid CodecPrivateData for avcC: ">>, ErrInvalidParam))
       ELSE IF HasEmptyNalu(units)
       THEN Panic
       ELSE Only({
         IF Len(sps) > 0 /\ Len(sps[1]) < 4
         THEN Panic
         ELSE Ret(Box("avcC",
                      [ConfigurationVersion  |-> 1,
                       AVCProfileIndication  |-> IF Len(sps) > 0 THEN sps[1][2] ELSE 0,
                       ProfileCompatibility  |-> IF Len(sps) > 0 THEN sps[1][3] ELSE 0,
                       AVCLevelIndication    |-> IF Len(sps) > 0 THEN sps[1][4] ELSE 0,
                       LengthSizeMinusOne    |-> 3,
                       SequenceParameterSets |-> sps,
                       PictureParameterSets  |-> pps]),
                  NilErr)
         : sps \in { AvcOfType(units, AVC_NALU_SPS) },
           pps \in { AvcOfType(units, AVC_NALU_PPS) } })
    : nalus \in { Split(q.CodecPrivateData, Marker) } })

CreateHvcCMp4Box(q) ==
  Only({
    LET units == Tail1(nalus)
    IN IF Len(nalus) < 1
       THEN Ret(Nil, Errorf(<<"invalid CodecPrivateData for hvcC: ">>, ErrInvalidParam))
       ELSE IF HasEmptyNalu(units)
       THEN Panic
       ELSE Only({
         IF Len(spsNalus) = 0
         THEN Ret(Nil, PlainError("cannot find hevc sps nalu"))
         ELSE Only({
           IF made.err # NilErr
           THEN Ret(Nil, made.err)
           ELSE Ret(Box("hvcC", [HEVCConfig |-> made.conf]), NilErr)
           : made \in { CreateHEVCDecoderConfigurationRecord(
                          vpsNalus, spsNalus, ppsNalus, TRUE, TRUE, TRUE) } })
         : vpsNalus \in { HevcOfType(units, HEVC_NALU_VPS) },
           spsNalus \in { HevcOfType(units, HEVC_NALU_SPS) },
           ppsNalus \in { HevcOfType(units, HEVC_NALU_PPS) } })
    : nalus \in { Split(q.CodecPrivateData, Marker) } })

(***************************************************************************)
(* moov_processor.go: the protection-scheme subtree.                       *)
(***************************************************************************)
\* CreateSchiMp4Box with a 16-byte default IV size
CreateSchiMp4BoxIV16(q) ==
  LET tenc == Box("tenc", [DefaultIsProtected     |-> 1,
                           DefaultPerSampleIVSize |-> 16,
                           DefaultKID             |-> q.KID])
  IN Only({ Ret(schi.box, schi.err)
            : schi \in { Mp4BoxReplaceChildren(Box("schi", [none |-> 0]), <<tenc>>) } })

CreateSchiMp4Box(q) ==
  LET tenc == Box("tenc", [DefaultIsProtected     |-> 1,
                           DefaultPerSampleIVSize |-> 8,
                           DefaultKID             |-> q.KID])
  IN Only({ Ret(schi.box, schi.err)
            : schi \in { Mp4BoxReplaceChildren(Box("schi", [none |-> 0]), <<tenc>>) } })

CreateSinfMp4Box(q) ==
  LET sinf0 == Box("sinf", [none |-> 0])
      frmt  == Box("frma", [DataFormat |-> q.Codec])
      schm  == Box("schm", [SchemeType |-> "cenc", SchemeVersion |-> 65536])
  IN Only({
       IF schi.panicked THEN Panic
       ELSE IF schi.err # NilErr THEN Ret(sinf0, schi.err)
       ELSE Only({ Ret(sinf.box, sinf.err)
                   : sinf \in { Mp4BoxReplaceChildren(sinf0, <<frmt, schm, schi.box>>) } })
       : schi \in { CreateSchiMp4Box(q) } })

(***************************************************************************)
(* Fixed-width integers.  The model checker's integers are 32-bit, so the  *)
(* widths are scaled by 1/8: uint16, uint32 and uint64 wrap at 2^2, 2^4    *)
(* and 2^8; the conversions and the wrap-around are those of the code.     *)
(***************************************************************************)
Mod16 == 2^2

Mod32 == 2^4

Mod64 == 2^8

Uint16(n) == n % Mod16

Uint32(n) == n % Mod32

Uint64(n) == n % Mod64

(***************************************************************************)
(* moov_processor.go: the sample entries.                                  *)
(***************************************************************************)
\* the fields of mp4.VisualSampleEntryBox both sample entries set
VisualSampleEntryFields(q, compressor) ==
  [DataReferenceIndex |-> 1,
   Width              |-> Uint16(q.Width),
   Height             |-> Uint16(q.Height),
   HorizResolution    |-> 72,
   VertResolution     |-> 72,
   FrameCount         |-> 1,
   CompressorName     |-> compressor,
   Depth              |-> 24]

\* AttachSampleEntryChildren without the overwrite of the type by encv
AttachSampleEntryChildrenKeepType(q, entry, conf) ==
  IF conf.panicked THEN Panic
  ELSE IF conf.err # NilErr THEN Ret(entry, conf.err)
  ELSE IF ~q.Protected
  THEN Only({ Ret(done.box, done.err)
              : done \in { Mp4BoxReplaceChildren(entry, <<conf.box>>) } })
  ELSE Only({
         IF sinf.panicked THEN Panic
         ELSE IF sinf.err # NilErr THEN Ret(entry, sinf.err)
         ELSE Only({ Ret(done.box, done.err)
                     : done \in { Mp4BoxReplaceChildren(entry, <<conf.box, sinf.box>>) } })
         : sinf \in { CreateSinfMp4Box(q) } })

\* lines 262-280 and 297-315, the same in both methods: given the entry
\* allocated so far and the (box, err) of the configuration box, give up on
\* an error, else overwrite the type and append the sinf of a protected
\* track, and attach the children
AttachSampleEntryChildren(q, entry, conf) ==
  IF conf.panicked THEN Panic
  ELSE IF conf.err # NilErr THEN Ret(entry, conf.err)
  ELSE IF ~q.Protected
  THEN Only({ Ret(done.box, done.err)
              : done \in { Mp4BoxReplaceChildren(entry, <<conf.box>>) } })
  ELSE Only({
         IF sinf.panicked THEN Panic
         ELSE IF sinf.err # NilErr THEN Ret(encv, sinf.err)
         ELSE Only({ Ret(done.box, done.err)
                     : done \in { Mp4BoxReplaceChildren(encv, <<conf.box, sinf.box>>) } })
         : sinf \in { CreateSinfMp4Box(q) },
           encv \in { Mp4BoxSetType(entry, "encv") } })

\* CreateHvc1Mp4Box with the constant type hvc1 instead of the track's fourCC
CreateHvc1Mp4BoxFixedType(q) ==
  Only({ AttachSampleEntryChildren(
           q, Box("hvc1", VisualSampleEntryFields(q, "HEVC Coding")), hvcC)
         : hvcC \in { CreateHvcCMp4Box(q) } })

CreateHvc1Mp4Box(q) ==
  Only({ AttachSampleEntryChildren(
           q, Box(q.Codec, VisualSampleEntryFields(q, "HEVC Coding")), hvcC)
         : hvcC \in { CreateHvcCMp4Box(q) } })

CreateAvc1Mp4Box(q) ==
  Only({ AttachSampleEntryChildren(
           q, Box("avc1", VisualSampleEntryFields(q, "AVC Coding")), avcC)
         : avcC \in { CreateAvcCMp4Box(q) } })

\* CreateSampleEntryMp4Box whose HEVC case lists hvc1 only
CreateSampleEntryMp4BoxNoHev1(q) ==
  CASE q.Codec = "avc1" -> CreateAvc1Mp4Box(q)
    [] q.Codec \in {"hvc1"} -> CreateHvc1Mp4Box(q)
    [] OTHER -> Ret(Nil, Errorf(<<"codec ", q.Codec, " not supported: ">>, ErrUnknownCodec))

CreateSampleEntryMp4Box(q) ==
  CASE q.Codec = "avc1" -> CreateAvc1Mp4Box(q)
    [] q.Codec \in {"hvc1", "hev1"} -> CreateHvc1Mp4Box(q)
    [] OTHER -> Ret(Nil, Errorf(<<"codec ", q.Codec, " not supported: ">>, ErrUnknownCodec))

(***************************************************************************)
(* moov_processor.go: the sample table.                                    *)
(***************************************************************************)
\* lines 229-233 and the like: allocate the parent, replace its children,
\* return it with the library's error
Assemble(type, children) ==
  Only({ Ret(parent.box, parent.err)
         : parent \in { Mp4BoxReplaceChildren(Box(type, [none |-> 0]), children) } })

CreateStsdMp4Box(q) ==
  Only({
    IF sampleEntry.panicked THEN Panic
    ELSE IF sampleEntry.err # NilErr THEN Ret(Nil, sampleEntry.err)
    ELSE Assemble("stsd", <<sampleEntry.box>>)
    : sampleEntry \in { CreateSampleEntryMp4Box(q) } })

CreateStblMp4Box(q) ==
  Only({
    IF stsd.panicked THEN Panic
    ELSE IF stsd.err # NilErr THEN Ret(Nil, stsd.err)
    ELSE Assemble("stbl",
           <<stsd.box, Box("stts", [none |-> 0]), Box("stsc", [none |-> 0]),
             Box("stco", [none |-> 0]), Box("stsz", [none |-> 0])>>)
    : stsd \in { CreateStsdMp4Box(q) } })

(***************************************************************************)
(* moov_processor.go: the media information.                               *)
(***************************************************************************)
FLAG_DREF_SAME_FILE == 1

CreateDrefMp4Box(q) ==
  LET url == Mp4BoxSetFlags(Box("url ", [Flags |-> 0]), FLAG_DREF_SAME_FILE)
  IN Only({ Ret(dref.box, dref.err)
            : dref \in { Mp4BoxAppend(Box("dref", [none |-> 0]), url) } })

CreateDinfMp4Box(q) ==
  Only({
    IF dref.err # NilErr THEN Ret(Nil, dref.err)
    ELSE Assemble("dinf", <<dref.box>>)
    : dref \in { CreateDrefMp4Box(q) } })

\* CreateMhdMp4Box without the audio case
CreateMhdMp4BoxVideoOnly(q) ==
  CASE q.StreamType = "video" -> Ret(Box("vmhd", [none |-> 0]), NilErr)
    [] OTHER -> Ret(Nil, NilErr)

CreateMhdMp4Box(q) ==
  CASE q.StreamType = "video" -> Ret(Box("vmhd", [none |-> 0]), NilErr)
    [] q.StreamType = "audio" -> Ret(Box("smhd", [none |-> 0]), NilErr)
    [] OTHER -> Ret(Nil, NilErr)

CreateMinfMp4Box(q) ==
  Only({
    IF mhd.err # NilErr THEN Ret(Nil, mhd.err)
    ELSE IF dinf.err # NilErr THEN Ret(Nil, dinf.err)
    ELSE IF stbl.panicked THEN Panic
    ELSE IF stbl.err # NilErr THEN Ret(Nil, stbl.err)
    ELSE Assemble("minf",
           IF mhd.box # Nil
           THEN <<mhd.box>> \o <<dinf.box, stbl.box>>
           ELSE <<dinf.box, stbl.box>>)
    : mhd \in { CreateMhdMp4Box(q) },
      dinf \in { CreateDinfMp4Box(q) },
      stbl \in { CreateStblMp4Box(q) } })

(***************************************************************************)
(* moov_processor.go: media, track, movie and the initialization segment.  *)
(* Mp4BoxUpdate recomputes the size field of a box header, which is not    *)
(* part of this model's boxes.                                             *)
(***************************************************************************)
\* the unity matrix of mvhd and tkhd
UnityMatrix == <<65536, 0, 0, 0, 65536, 0, 0, 0, 1073741824>>

CreateMdiaMp4Box(q) ==
  LET mdhd == Box("mdhd", [Version   |-> 1,
                           Timescale |-> Uint32(q.Timescale),
                           Duration  |-> Uint64(q.Duration * q.Timescale),
                           Language  |-> q.Language])
      hdlr == Box("hdlr", [HandlerType |-> CASE q.StreamType = "video" -> "vide"
                                             [] q.StreamType = "audio" -> "soun"
                                             [] OTHER -> "meta",
                           Name        |-> q.StreamName])
  IN Only({
       IF minf.panicked THEN Panic
       ELSE IF minf.err # NilErr THEN Ret(Nil, minf.err)
       ELSE Assemble("mdia", <<mdhd, hdlr, minf.box>>)
       : minf \in { CreateMinfMp4Box(q) } })

FLAG_TKHD_TRACK_ENABLED == 1

FLAG_TKHD_TRACK_IN_MOVIE == 2

FLAG_TKHD_TRACK_IN_PREVIEW == 4

CreateTrakMp4Box(q) ==
  LET tkhd == Mp4BoxSetFlags(
                Box("tkhd", [Version  |-> 1,
                             Flags    |-> 0,
                             TrackID  |-> q.TrackID,
                             Duration |-> Uint64(q.Duration * q.Timescale),
                             Volume   |-> 256,
                             Matrix   |-> UnityMatrix,
                             Width    |-> q.Width,
                             Height   |-> q.Height]),
                FLAG_TKHD_TRACK_ENABLED + FLAG_TKHD_TRACK_IN_MOVIE + FLAG_TKHD_TRACK_IN_PREVIEW)
  IN Only({
       IF mdia.panicked THEN Panic
       ELSE IF mdia.err # NilErr THEN Ret(Nil, mdia.err)
       ELSE Assemble("trak", <<tkhd, mdia.box>>)
       : mdia \in { CreateMdiaMp4Box(q) } })

CreateMvexMp4Box(q) ==
  LET trex == Box("trex", [TrackID |-> q.TrackID, DefaultSampleDescrptionIndex |-> 1])
  IN Assemble("mvex", <<trex>>)

CreatePsshMp4Box(q) ==
  Ret(Box("pssh", [SystemID |-> q.SystemID, Data |-> q.ProtectionInitData]), NilErr)

CreateMvhdMp4Box(q) ==
  Ret(Box("mvhd", [Version     |-> 1,
                   Timescale   |-> Uint32(q.Timescale),
                   Duration    |-> Uint64(q.Duration * q.Timescale),
                   Rate        |-> 65536,
                   Volume      |-> 256,
                   Matrix      |-> UnityMatrix,
                   NextTrackID |-> Uint32(q.TrackID + 1)]),
      NilErr)

\* CreateMoovMp4Box that appends the pssh whether or not the track is protected
CreateMoovMp4BoxAlwaysPssh(q) ==
  Only({
    IF mvhd.err # NilErr THEN Ret(Nil, mvhd.err)
    ELSE IF trak.panicked THEN Panic
    ELSE IF trak.err # NilErr THEN Ret(Nil, trak.err)
    ELSE IF mvex.err # NilErr THEN Ret(Nil, mvex.err)
    ELSE Only({
           IF pssh.err # NilErr THEN Ret(Nil, pssh.err)
           ELSE Assemble("moov", Append(<<mvhd.box, trak.box, mvex.box>>, pssh.box))
           : pssh \in { CreatePsshMp4Box(q) } })
    : mvhd \in { CreateMvhdMp4Box(q) },
      trak \in { CreateTrakMp4Box(q) },
      mvex \in { CreateMvexMp4Box(q) } })

CreateMoovMp4Box(q) ==
  Only({
    IF mvhd.err # NilErr THEN Ret(Nil, mvhd.err)
    ELSE IF trak.panicked THEN Panic
    ELSE IF trak.err # NilErr THEN Ret(Nil, trak.err)
    ELSE IF mvex.err # NilErr THEN Ret(Nil, mvex.err)
    ELSE IF ~q.Protected THEN Assemble("moov", <<mvhd.box, trak.box, mvex.box>>)
    ELSE Only({
           IF pssh.err # NilErr THEN Ret(Nil, pssh.err)
           ELSE Assemble("moov", Append(<<mvhd.box, trak.box, mvex.box>>, pssh.box))
           : pssh \in { CreatePsshMp4Box(q) } })
    : mvhd \in { CreateMvhdMp4Box(q) },
      trak \in { CreateTrakMp4Box(q) },
      mvex \in { CreateMvexMp4Box(q) } })

CreateFtypMp4Box(q) ==
  Ret(Box("ftyp", [MajorBrand       |-> "iso6",
                   MinorVersion     |-> 1,
                   CompatibleBrands |-> <<"isom", "iso6", "msdh">>]),
      NilErr)

\* a CreateInitMp4Box that returned (ftyp, moov, err)
Ret2(ftyp, moov, err) == [ftyp |-> ftyp, moov |-> moov, err |-> err, panicked |-> FALSE]

Panic2 == [ftyp |-> Nil, moov |-> Nil, err |-> NilErr, panicked |-> TRUE]

CreateInitMp4Box(q) ==
  Only({
    IF ftyp.err # NilErr THEN Ret2(ftyp.box, Nil, ftyp.err)
    ELSE Only({
           IF moov.panicked THEN Panic2
           ELSE Ret2(ftyp.box, moov.box, moov.err)
           : moov \in { CreateMoovMp4Box(q) } })
    : ftyp \in { CreateFtypMp4Box(q) } })

(***************************************************************************)
(* The processors the model builds for.                                    *)
(***************************************************************************)
\* NAL units a CodecPrivateData is made of: an empty segment, two AVC SPS
\* (0x67), a one-byte AVC SPS, an AVC PPS (0x68), an HEVC VPS (0x40), SPS
\* (0x42) and PPS (0x44)
Segs ==
  { <<>>, <<103, 66, 0, 31>>, <<103, 100, 1, 40>>, <<103>>, <<104, 206>>,
    <<64, 1>>, <<66, 1>>, <<68, 1>> }

\* bytes before the first marker
Prefixes == { <<>>, <<103, 66>> }

\* the strings of exactly k marker-introduced segments
RECURSIVE NaluStrings(_)
NaluStrings(k) ==
  IF k = 0 THEN { <<>> }
  ELSE { Marker \o s \o r : s \in Segs, r \in NaluStrings(k - 1) }

CodecPrivateDatas ==
  { pre \o r : pre \in Prefixes, r \in UNION { NaluStrings(k) : k \in 0..MaxNalus } }

\* four private-data strings for the box-tree slice: empty, AVC SPS + PPS,
\* HEVC VPS + SPS + PPS, and a lone HEVC PPS
TreePrivateDatas ==
  { <<>>,
    Marker \o <<103, 66, 0, 31>> \o Marker \o <<104, 206>>,
    Marker \o <<64, 1>> \o Marker \o <<66, 1>> \o Marker \o <<68, 1>>,
    Marker \o <<68, 1>> }

Codecs == { "avc1", "hvc1", "hev1", "AC-3" }

StreamTypes == { "video", "audio", "text", "" }

KIDs == { "kid-A", "kid-B" }

SystemIDs == { "playready", "widevine" }

InitDatas == { <<>>, <<8, 1>> }

\* the fields held fixed in both slices
BaseProcessor ==
  [TrackID |-> 1, Codec |-> "avc1", Width |-> 2, Height |-> 1, Duration |-> 2,
   Timescale |-> 3, Language |-> "und", CodecPrivateData |-> <<>>,
   StreamType |-> "video", StreamName |-> "video", Protected |-> FALSE,
   KID |-> "kid-A", SystemID |-> "playready", ProtectionInitData |-> <<>>]

\* every private-data string under a codec of each family that parses it
CodecProcessors ==
  { [BaseProcessor EXCEPT !.CodecPrivateData = d, !.Codec = c] :
      d \in CodecPrivateDatas, c \in { "avc1", "hvc1" } }

\* every codec, stream type and protection payload
TreeProcessors ==
  { [BaseProcessor EXCEPT !.CodecPrivateData = d, !.Codec = c, !.Protected = e,
                          !.StreamType = t, !.KID = k, !.SystemID = s,
                          !.ProtectionInitData = i] :
      d \in TreePrivateDatas, c \in Codecs, e \in BOOLEAN, t \in StreamTypes,
      k \in KIDs, s \in SystemIDs, i \in InitDatas }

\* durations, timescales and track ids up to the top of their integer
\* widths, on a track whose private data holds an SPS and a PPS
NumericProcessors ==
  { [BaseProcessor EXCEPT !.CodecPrivateData = Marker \o <<103, 66, 0, 31>>
                                                \o Marker \o <<104, 206>>,
                          !.Duration = d, !.Timescale = t, !.TrackID = id] :
      d \in { 2, Mod32 }, t \in { 3, Mod32, Mod32 + 1 }, id \in { 1, Mod32 - 1 } }

Processors == CodecProcessors \cup TreeProcessors \cup NumericProcessors

(***************************************************************************)
(* The state machine: a caller holds one MoovProcessor value and calls its *)
(* methods; op is the method called last and res what it returned.         *)
(***************************************************************************)
NoResult == [box |-> Nil, err |-> NilErr, panicked |-> FALSE]

\* no stream is being resolved
NoTimeline ==
  [groups |-> <<>>, total |-> 0, i |-> 1, prevEnd |-> 0, out |-> <<>>, status |-> "idle"]

\* ChunkURL has not been called
NoChunkURL == [called |-> FALSE]

Init ==
  /\ p \in Processors
  /\ hevcOk \in BOOLEAN
  /\ op = "none"
  /\ res = NoResult
  /\ tl = NoTimeline
  /\ cu = NoChunkURL

Call(name, result) ==
  /\ op' = name
  /\ res' = result
  /\ UNCHANGED <<p, hevcOk, tl, cu>>

CallCreateFtypMp4Box == Call("CreateFtypMp4Box", CreateFtypMp4Box(p))

CallCreateMoovMp4Box == Call("CreateMoovMp4Box", CreateMoovMp4Box(p))

CallCreateMvhdMp4Box == Call("CreateMvhdMp4Box", CreateMvhdMp4Box(p))

CallCreatePsshMp4Box == Call("CreatePsshMp4Box", CreatePsshMp4Box(p))

CallCreateMvexMp4Box == Call("CreateMvexMp4Box", CreateMvexMp4Box(p))

CallCreateTrakMp4Box == Call("CreateTrakMp4Box", CreateTrakMp4Box(p))

CallCreateMdiaMp4Box == Call("CreateMdiaMp4Box", CreateMdiaMp4Box(p))

CallCreateMinfMp4Box == Call("CreateMinfMp4Box", CreateMinfMp4Box(p))

CallCreateStblMp4Box == Call("CreateStblMp4Box", CreateStblMp4Box(p))

CallCreateStsdMp4Box == Call("CreateStsdMp4Box", CreateStsdMp4Box(p))

CallCreateSampleEntryMp4Box == Call("CreateSampleEntryMp4Box", CreateSampleEntryMp4Box(p))

CallCreateHvc1Mp4Box == Call("CreateHvc1Mp4Box", CreateHvc1Mp4Box(p))

CallCreateAvc1Mp4Box == Call("CreateAvc1Mp4Box", CreateAvc1Mp4Box(p))

CallCreateSinfMp4Box == Call("CreateSinfMp4Box", CreateSinfMp4Box(p))

CallCreateSchiMp4Box == Call("CreateSchiMp4Box", CreateSchiMp4Box(p))

CallCreateAvcCMp4Box == Call("CreateAvcCMp4Box", CreateAvcCMp4Box(p))

CallCreateHvcCMp4Box == Call("CreateHvcCMp4Box", CreateHvcCMp4Box(p))

CallCreateDinfMp4Box == Call("CreateDinfMp4Box", CreateDinfMp4Box(p))

CallCreateDrefMp4Box == Call("CreateDrefMp4Box", CreateDrefMp4Box(p))

CallCreateMhdMp4Box == Call("CreateMhdMp4Box", CreateMhdMp4Box(p))

CallCreateInitMp4Box == Call("CreateInitMp4Box", CreateInitMp4Box(p))

Next ==
  \/ CallCreateFtypMp4Box
  \/ CallCreateMoovMp4Box
  \/ CallCreateMvhdMp4Box
  \/ CallCreatePsshMp4Box
  \/ CallCreateMvexMp4Box
  \/ CallCreateTrakMp4Box
  \/ CallCreateMdiaMp4Box
  \/ CallCreateMinfMp4Box
  \/ CallCreateStblMp4Box
  \/ CallCreateStsdMp4Box
  \/ CallCreateSampleEntryMp4Box
  \/ CallCreateHvc1Mp4Box
  \/ CallCreateAvc1Mp4Box
  \/ CallCreateSinfMp4Box
  \/ CallCreateSchiMp4Box
  \/ CallCreateAvcCMp4Box
  \/ CallCreateHvcCMp4Box
  \/ CallCreateDinfMp4Box
  \/ CallCreateDrefMp4Box
  \/ CallCreateMhdMp4Box
  \/ CallCreateInitMp4Box

Spec == Init /\ [][Next]_vars

(***************************************************************************)
(* Vocabulary of the properties.                                           *)
(***************************************************************************)
Returned == op # "none" /\ ~res.panicked

Succeeded == Returned /\ res.err = NilErr

Failed == Returned /\ res.err # NilErr

SupportedCodecs == { "avc1", "hvc1", "hev1" }

\* the methods that reach CreateSampleEntryMp4Box
SampleEntryCallers ==
  { "CreateSampleEntryMp4Box", "CreateStsdMp4Box", "CreateStblMp4Box",
    "CreateMinfMp4Box", "CreateMdiaMp4Box", "CreateTrakMp4Box",
    "CreateMoovMp4Box", "CreateInitMp4Box" }

\* the box types of a child list
Types(children) == [i \in DOMAIN children |-> children[i].type]

(***************************************************************************)
(* Properties of the initialization-segment builder.                       *)
(***************************************************************************)
\* C1: with a Codec other than avc1, hvc1 and hev1, CreateSampleEntryMp4Box
\* and every builder above it fail with an error that wraps ErrUnknownCodec
\* and whose message names the fourCC; with one of the three supported
\* fourCCs no method produces that error.
UnsupportedCodecFails ==
  /\ (op \in SampleEntryCallers /\ p.Codec \notin SupportedCodecs)
       => /\ Failed
          /\ ErrorsIs(res.err, ErrUnknownCodec)
          /\ \E i \in DOMAIN res.err.msg : res.err.msg[i] = p.Codec
  /\ (op # "none" /\ p.Codec \in SupportedCodecs)
       => ~ErrorsIs(res.err, ErrUnknownCodec)

UnsupportedCodecFailsWitness ==
  /\ op = "CreateInitMp4Box"
  /\ p.Codec = "AC-3"
  /\ ErrorsIs(res.err, ErrUnknownCodec)
  /\ res.err.msg = <<"codec ", "AC-3", " not supported: ", "codec not supported">>

\* the sample entry a call of CreateSampleEntryMp4Box, or of the builder of
\* the track's own codec family, has built
BuiltSampleEntry ==
  /\ Succeeded
  /\ \/ op = "CreateSampleEntryMp4Box" /\ p.Codec \in SupportedCodecs
     \/ op = "CreateAvc1Mp4Box" /\ p.Codec = "avc1"
     \/ op = "CreateHvc1Mp4Box" /\ p.Codec \in { "hvc1", "hev1" }

ConfigType == IF p.Codec = "avc1" THEN "avcC" ELSE "hvcC"

\* C2: a built AVC or HEVC sample entry of a protected track has type encv
\* and the children [configuration box, sinf], the sinf's original-format
\* box carrying Codec; that of an unprotected track keeps the codec's type
\* and has the configuration box as its only child.
ProtectedSampleEntryShape ==
  BuiltSampleEntry =>
    IF p.Protected
    THEN /\ res.box.type = "encv"
         /\ Types(res.box.children) = <<ConfigType, "sinf">>
         /\ res.box.children[2].children[1].type = "frma"
         /\ res.box.children[2].children[1].fields.DataFormat = p.Codec
    ELSE /\ res.box.type = p.Codec
         /\ Types(res.box.children) = <<ConfigType>>

ProtectedSampleEntryShapeWitness ==
  /\ BuiltSampleEntry
  /\ op = "CreateSampleEntryMp4Box"
  /\ p.Protected
  /\ p.Codec = "hev1"
  /\ res.box.type = "encv"
  /\ Len(res.box.children) = 2

\* C3: the children of a built movie box are mvhd, trak, mvex, followed by
\* one pssh exactly when Protected; the pssh carries SystemID and
\* ProtectionInitData as given.
MoovChildren ==
  (op = "CreateMoovMp4Box" /\ Succeeded) =>
    IF p.Protected
    THEN /\ Types(res.box.children) = <<"mvhd", "trak", "mvex", "pssh">>
         /\ res.box.children[4].fields.SystemID = p.SystemID
         /\ res.box.children[4].fields.Data = p.ProtectionInitData
    ELSE Types(res.box.children) = <<"mvhd", "trak", "mvex">>

MoovChildrenWitness ==
  /\ op = "CreateMoovMp4Box"
  /\ Succeeded
  /\ p.Protected
  /\ p.SystemID = "widevine"
  /\ p.ProtectionInitData = <<8, 1>>
  /\ Len(res.box.children) = 4

\* C4: a method that returns an error returns no box with it: every box
\* returned alongside a non-nil error is nil, for CreateInitMp4Box both
\* the file-type box and the movie box.
NoBoxWithError ==
  Failed =>
    IF op = "CreateInitMp4Box"
    THEN res.ftyp = Nil /\ res.moov = Nil
    ELSE res.box = Nil

\* CodecPrivateData holds no 00 00 00 01 marker, so no segment follows one
NoMarker == Index(p.CodecPrivateData, Marker) = 0

\* C5: CreateAvcCMp4Box fails with ErrInvalidParam when CodecPrivateData
\* holds no marker-delimited segment, and only then; CreateHvcCMp4Box
\* fails with ErrInvalidParam in that case.
InvalidPrivateDataFails ==
  /\ op = "CreateAvcCMp4Box"
       => (NoMarker <=> (Failed /\ ErrorsIs(res.err, ErrInvalidParam)))
  /\ (op = "CreateHvcCMp4Box" /\ NoMarker)
       => (Failed /\ ErrorsIs(res.err, ErrInvalidParam))

\* the segments after the first marker, as the claims describe them
Units == Tail1(Split(p.CodecPrivateData, Marker))

\* the non-empty units whose first byte b satisfies b % 32 = 7 (AVC SPS),
\* b % 32 = 8 (AVC PPS) or (b \div 2) % 64 = 33 (HEVC SPS); an empty
\* segment has no type
AvcSpsUnits == SelectSeq(Units, LAMBDA n : n # <<>> /\ n[1] % 32 = 7)

AvcPpsUnits == SelectSeq(Units, LAMBDA n : n # <<>> /\ n[1] % 32 = 8)

HevcSpsUnits == SelectSeq(Units, LAMBDA n : n # <<>> /\ (n[1] \div 2) % 64 = 33)

MissingSps == PlainError("cannot find hevc sps nalu")

\* C6: for HEVC private data with at least one NAL unit, CreateHvcCMp4Box
\* fails with the missing-SPS error and returns no box when no unit is an
\* SPS, and never fails with that error when some unit is.
MissingSpsFails ==
  (op = "CreateHvcCMp4Box" /\ \E i \in DOMAIN Units : Units[i] # <<>>) =>
    IF HevcSpsUnits = <<>>
    THEN Failed /\ res.err = MissingSps /\ res.box = Nil
    ELSE res.err # MissingSps

\* C7: for AVC private data with a marker, CreateAvcCMp4Box yields a record
\* of version 1 and length-size-minus-one 3 whose SPS and PPS lists are
\* the units of type 7 and of type 8 in encounter order; profile,
\* compatibility and level are bytes 1, 2, 3 of the first SPS, and zero,
\* without failure, when there is no SPS.
AvcRecord ==
  (op = "CreateAvcCMp4Box" /\ ~NoMarker) =>
    LET sps == AvcSpsUnits
        pps == AvcPpsUnits
    IN /\ Succeeded
       /\ res.box.type = "avcC"
       /\ res.box.fields.ConfigurationVersion = 1
       /\ res.box.fields.LengthSizeMinusOne = 3
       /\ res.box.fields.SequenceParameterSets = sps
       /\ res.box.fields.PictureParameterSets = pps
       /\ IF sps = <<>>
          THEN /\ res.box.fields.AVCProfileIndication = 0
               /\ res.box.fields.ProfileCompatibility = 0
               /\ res.box.fields.AVCLevelIndication = 0
          ELSE /\ Len(sps[1]) >= 4
               /\ res.box.fields.AVCProfileIndication = sps[1][2]
               /\ res.box.fields.ProfileCompatibility = sps[1][3]
               /\ res.box.fields.AVCLevelIndication = sps[1][4]

\* the fields every visual sample entry carries
FixedEntryFields ==
  /\ res.box.fields.HorizResolution = 72
  /\ res.box.fields.VertResolution = 72
  /\ res.box.fields.FrameCount = 1
  /\ res.box.fields.Depth = 24

UnprotectedEntry ==
  op = "CreateSampleEntryMp4Box" /\ Succeeded /\ ~p.Protected

\* C8 as stated: the unprotected sample entry of an hvc1 or hev1 track has
\* type hvc1, compressor name "HEVC Coding" and the fixed fields; that of
\* an avc1 track has type avc1 and compressor name "AVC Coding".
HevcEntryTypeIsHvc1 ==
  UnprotectedEntry =>
    /\ p.Codec \in { "hvc1", "hev1" }
         => /\ res.box.type = "hvc1"
            /\ res.box.fields.CompressorName = "HEVC Coding"
            /\ FixedEntryFields
    /\ p.Codec = "avc1"
         => /\ res.box.type = "avc1"
            /\ res.box.fields.CompressorName = "AVC Coding"
            /\ FixedEntryFields

\* C8 amended: the unprotected sample entry of an hvc1 or hev1 track has
\* the track's own fourCC as its type (hvc1 for hvc1, hev1 for hev1),
\* compressor name "HEVC Coding" and the fixed fields; that of an avc1
\* track has type avc1 and compressor name "AVC Coding".
HevcEntryTypeIsCodec ==
  UnprotectedEntry =>
    /\ p.Codec \in { "hvc1", "hev1" }
         => /\ res.box.type = p.Codec
            /\ res.box.fields.CompressorName = "HEVC Coding"
            /\ FixedEntryFields
    /\ p.Codec = "avc1"
         => /\ res.box.type = "avc1"
            /\ res.box.fields.CompressorName = "AVC Coding"
            /\ FixedEntryFields

HevcEntryTypeIsCodecWitness ==
  /\ UnprotectedEntry
  /\ p.Codec = "hev1"
  /\ res.box.type = "hev1"
  /\ res.box.fields.CompressorName = "HEVC Coding"

\* C9: the children of a built media-information box are [vmhd, dinf, stbl]
\* for a video stream, [smhd, dinf, stbl] for an audio stream and
\* [dinf, stbl] for any other stream type.
MinfChildren ==
  (op = "CreateMinfMp4Box" /\ Succeeded) =>
    Types(res.box.children) =
      CASE p.StreamType = "video" -> <<"vmhd", "dinf", "stbl">>
        [] p.StreamType = "audio" -> <<"smhd", "dinf", "stbl">>
        [] OTHER -> <<"dinf", "stbl">>

MinfChildrenWitness ==
  /\ op = "CreateMinfMp4Box"
  /\ Succeeded
  /\ p.StreamType = "text"
  /\ Types(res.box.children) = <<"dinf", "stbl">>

\* C10: CreateSinfMp4Box always builds a box with the three children
\* [frma, schm, schi]; the schm signals scheme cenc, version 0x00010000;
\* the schi holds exactly one tenc with default-is-protected 1, per-sample
\* IV size 8 and the given KID.
SinfShape ==
  op = "CreateSinfMp4Box" =>
    /\ Succeeded
    /\ res.box.type = "sinf"
    /\ Types(res.box.children) = <<"frma", "schm", "schi">>
    /\ res.box.children[2].fields.SchemeType = "cenc"
    /\ res.box.children[2].fields.SchemeVersion = 65536
    /\ Types(res.box.children[3].children) = <<"tenc">>
    /\ res.box.children[3].children[1].fields.DefaultIsProtected = 1
    /\ res.box.children[3].children[1].fields.DefaultPerSampleIVSize = 8
    /\ res.box.children[3].children[1].fields.DefaultKID = p.KID

SinfShapeWitness ==
  /\ op = "CreateSinfMp4Box"
  /\ Succeeded
  /\ p.KID = "kid-B"
  /\ p.Codec = "hev1"
  /\ Len(res.box.children) = 3

(***************************************************************************)
(* Timeline resolution.  The package declares StreamFragment (its Number,  *)
(* Duration, Time and Repeat are pointers, nil when the attribute is       *)
(* absent) but holds no resolver; the resolver below is the algorithm of   *)
(* the specification, section 4.1, one manifest element per step.          *)
(***************************************************************************)
\* a nil *uint64: the attribute is absent
Absent == 0 - 1

Times == { Absent, 0, 2, 3 }

Durations == { Absent, 1, 2 }

Repeats == { Absent, 1, 2 }

\* StreamFragment: the attributes d, t and r of a c element
StreamFragments == [Duration : Durations, Time : Times, Repeat : Repeats]

\* SmoothStreamingMedia.Duration, in the stream's time scale
PresentationDurations == { 3, 6 }

RECURSIVE SeqsUpTo(_, _)
SeqsUpTo(S, n) ==
  IF n = 0 THEN { <<>> }
  ELSE SeqsUpTo(S, n - 1) \cup
       { Append(q, x) : q \in { r \in SeqsUpTo(S, n - 1) : Len(r) = n - 1 }, x \in S }

\* step 3: the repeat count of a group, 1 when absent
RepeatCount(g) == IF g.Repeat = Absent THEN 1 ELSE g.Repeat

\* Expand that emits one fragment whatever the repeat count
ExpandOnce(s, d, r, first) ==
  [k \in 1..1 |-> [start |-> s, duration |-> d, sequenceIndex |-> first]]

\* step 3: the r fragments of a group resolved to start s and duration d,
\* numbered from first
Expand(s, d, r, first) ==
  [k \in 1..r |-> [start |-> s + (k - 1) * d, duration |-> d, sequenceIndex |-> first + k - 1]]

\* step 2: the duration of group i resolved to start s: explicit, or up to
\* the next group's explicit start, or up to the end of the presentation
\* for the last group; a status instead of a number when none can be had
GroupDuration(t, s) ==
  LET g == t.groups[t.i]
  IN IF g.Duration # Absent THEN [status |-> "ok", d |-> g.Duration]
     ELSE IF t.i = Len(t.groups)
     THEN IF t.total < s
          THEN [status |-> "MalformedTimeline", d |-> 0]
          ELSE [status |-> "ok", d |-> t.total - s]
     ELSE IF t.groups[t.i + 1].Time = Absent
     THEN [status |-> "MalformedTimeline", d |-> 0]
     ELSE IF t.groups[t.i + 1].Time < s
     THEN [status |-> "NonContiguousTimeline", d |-> 0]
     ELSE [status |-> "ok", d |-> t.groups[t.i + 1].Time - s]

\* steps 1 to 5 for group i: its start (explicit, else the running end), the
\* NonContiguousTimeline edge case, its duration, its fragments, the new
\* running end
ResolveStep(t) ==
  LET g == t.groups[t.i]
      s == IF g.Time # Absent THEN g.Time ELSE t.prevEnd
  IN IF g.Time # Absent /\ g.Time < t.prevEnd
     THEN [t EXCEPT !.status = "NonContiguousTimeline"]
     ELSE Only({
            IF dur.status # "ok" THEN [t EXCEPT !.status = dur.status]
            ELSE [t EXCEPT !.out = t.out \o Expand(s, dur.d, RepeatCount(g), Len(t.out)),
                           !.prevEnd = s + RepeatCount(g) * dur.d,
                           !.i = t.i + 1,
                           !.status = IF t.i = Len(t.groups) THEN "done" ELSE "running"]
            : dur \in { GroupDuration(t, s) } })

\* the resolver before the first group of a stream
StartTimeline(groups, total) ==
  [groups |-> groups, total |-> total, i |-> 1, prevEnd |-> 0, out |-> <<>>,
   status |-> IF groups = <<>> THEN "done" ELSE "running"]

TimelineInit ==
  /\ p = [BaseProcessor EXCEPT !.Codec = "avc1"]
  /\ hevcOk = TRUE
  /\ op = "none"
  /\ res = NoResult
  /\ cu = NoChunkURL
  /\ tl \in { StartTimeline(groups, total) :
                groups \in SeqsUpTo(StreamFragments, MaxGroups),
                total \in PresentationDurations }

ResolveNextGroup ==
  /\ tl.status = "running"
  /\ tl' = ResolveStep(tl)
  /\ UNCHANGED <<p, hevcOk, op, res, cu>>

TimelineNext == ResolveNextGroup

TimelineSpec == TimelineInit /\ [][TimelineNext]_vars

(***************************************************************************)
(* Properties of timeline resolution.                                      *)
(***************************************************************************)
\* the repeat counts of the first n groups, absent counting as 1
RECURSIVE SumOfRepeats(_, _)
SumOfRepeats(groups, n) ==
  IF n = 0 THEN 0
  ELSE SumOfRepeats(groups, n - 1) +
       (IF groups[n].Repeat = Absent THEN 1 ELSE groups[n].Repeat)

\* C11: a stream that resolves yields as many fragments as the sum of its
\* groups' repeat counts (absent counting as 1); group n yields the r
\* entries after those of the groups before it, all of one duration d, the
\* k-th starting at s + k * d where s is the start of the group's first
\* entry, with s the group's Time and d its Duration when those are
\* explicit; sequenceIndex is the 0-based position in the output.
TotalCoverage ==
  tl.status = "done" =>
    /\ Len(tl.out) = SumOfRepeats(tl.groups, Len(tl.groups))
    /\ \A j \in DOMAIN tl.out : tl.out[j].sequenceIndex = j - 1
    /\ \A n \in DOMAIN tl.groups :
         LET g     == tl.groups[n]
             r     == IF g.Repeat = Absent THEN 1 ELSE g.Repeat
             first == SumOfRepeats(tl.groups, n - 1) + 1
         IN /\ g.Time # Absent => tl.out[first].start = g.Time
            /\ g.Duration # Absent => tl.out[first].duration = g.Duration
            /\ \A k \in 0..(r - 1) :
                 /\ tl.out[first + k].duration = tl.out[first].duration
                 /\ tl.out[first + k].start =
                      tl.out[first].start + k * tl.out[first].duration

TotalCoverageWitness ==
  /\ tl.status = "done"
  /\ Len(tl.groups) = 2
  /\ tl.groups[1].Repeat = 2
  /\ tl.groups[2].Repeat = Absent
  /\ Len(tl.out) = 3

\* the position in the output of the first fragment of group n
FirstOf(n) == SumOfRepeats(tl.groups, n - 1) + 1

\* the end of the fragment before position j, 0 when there is none
EndBefore(j) == IF j = 1 THEN 0 ELSE tl.out[j - 1].start + tl.out[j - 1].duration

\* the groups resolved so far
ResolvedGroups == IF tl.status \in { "running", "done" } THEN 1..(tl.i - 1) ELSE {}

\* fragment j opens a group that has an explicit Time
OpensTimedGroup(j) ==
  \E n \in ResolvedGroups : FirstOf(n) = j /\ tl.groups[n].Time # Absent

\* a group without a Time starts at the running end, a resolved group with
\* a Time does not start below it, and a group whose Time is below the
\* running end is reported as NonContiguousTimeline
StartsAtRunningEnd ==
  /\ \A n \in ResolvedGroups :
       IF tl.groups[n].Time = Absent
       THEN tl.out[FirstOf(n)].start = EndBefore(FirstOf(n))
       ELSE tl.out[FirstOf(n)].start >= EndBefore(FirstOf(n))
  /\ tl.status \in { "running", "done" } => tl.prevEnd = EndBefore(Len(tl.out) + 1)
  /\ tl.status = "MalformedTimeline" =>
       ~(tl.groups[tl.i].Time # Absent /\ tl.groups[tl.i].Time < tl.prevEnd)

\* C12: in every resolved sequence each fragment after the first
\* starts where the one before it ends; a group without a Time starts at
\* the running end (0 for the first group); a group whose Time is below the
\* running end is reported as NonContiguousTimeline, not resolved.
ContiguousTimeline ==
  /\ tl.status = "done" =>
       \A j \in 2..Len(tl.out) : tl.out[j].start = EndBefore(j)
  /\ StartsAtRunningEnd

\* what the resolver does ensure: each fragment after the first starts no
\* earlier than the one before it ends, and exactly there unless it opens a
\* group with an explicit Time, which starts at that Time
MonotonicTimeline ==
  /\ tl.status = "done" =>
       \A j \in 2..Len(tl.out) :
         /\ tl.out[j].start >= EndBefore(j)
         /\ ~OpensTimedGroup(j) => tl.out[j].start = EndBefore(j)
  /\ \A n \in ResolvedGroups :
       tl.groups[n].Time # Absent => tl.out[FirstOf(n)].start = tl.groups[n].Time
  /\ StartsAtRunningEnd

MonotonicTimelineWitness ==
  /\ tl.status = "done"
  /\ Len(tl.groups) = 2
  /\ tl.groups[1] = [Duration |-> 1, Time |-> Absent, Repeat |-> 2]
  /\ tl.groups[2].Time = 3
  /\ Len(tl.out) >= 3
  /\ tl.out[2].start = 1
  /\ tl.out[3].start = 3

\* a group with a Time below the running end is met and reported
NonContiguousReported ==
  /\ tl.status = "NonContiguousTimeline"
  /\ tl.i = 2
  /\ tl.groups[2].Time # Absent
  /\ tl.groups[2].Time < tl.prevEnd

(***************************************************************************)
(* ChunkURL.  A string is the sequence of its characters; a url.URL is     *)
(* its Scheme, Host, Path, RawQuery and Fragment.                          *)
(***************************************************************************)
\* largest number of pieces a generated URL template is made of
MaxParts == 3

TokBitrate == <<"{", "b", "i", "t", "r", "a", "t", "e", "}">>

TokBitrateCap == <<"{", "B", "i", "t", "r", "a", "t", "e", "}">>

TokStartSpace == <<"{", "s", "t", "a", "r", "t", " ", "t", "i", "m", "e", "}">>

TokStartUnderscore == <<"{", "s", "t", "a", "r", "t", "_", "t", "i", "m", "e", "}">>

DecimalDigits == <<"0", "1", "2", "3", "4", "5", "6", "7", "8", "9">>

\* strconv.FormatUint(n, 10)
RECURSIVE FormatUint(_)
FormatUint(n) ==
  IF n < 10 THEN <<DecimalDigits[n + 1]>>
  ELSE FormatUint(n \div 10) \o <<DecimalDigits[(n % 10) + 1]>>

\* strings.ReplaceAll(str, old, new) for a non-empty old: the leftmost
\* non-overlapping occurrences of old replaced by new
RECURSIVE ReplaceAll(_, _, _)
ReplaceAll(str, old, new) ==
  LET i == Index(str, old)
  IN IF i = 0 THEN str
     ELSE SubSeq(str, 1, i - 1) \o new
          \o ReplaceAll(SubSeq(str, i + Len(old), Len(str)), old, new)

\* path.Clean, on the elements between slashes: drop empty and "."
\* elements, let ".." drop the element before it, drop a ".." that would
\* climb above the root, keep the leading ".." of an unrooted path
RECURSIVE CleanElements(_, _, _)
CleanElements(elems, kept, rooted) ==
  IF elems = <<>> THEN kept
  ELSE LET x == Head(elems)
       IN IF x = <<>> \/ x = <<".">>
          THEN CleanElements(Tail(elems), kept, rooted)
          ELSE IF x = <<".", ".">>
          THEN IF kept # <<>> /\ kept[Len(kept)] # <<".", ".">>
               THEN CleanElements(Tail(elems), SubSeq(kept, 1, Len(kept) - 1), rooted)
               ELSE IF rooted
               THEN CleanElements(Tail(elems), kept, rooted)
               ELSE CleanElements(Tail(elems), Append(kept, x), rooted)
          ELSE CleanElements(Tail(elems), Append(kept, x), rooted)

\* the elements joined by slashes
RECURSIVE JoinElements(_)
JoinElements(elems) ==
  IF elems = <<>> THEN <<>>
  ELSE IF Len(elems) = 1 THEN elems[1]
  ELSE elems[1] \o <<"/">> \o JoinElements(Tail(elems))

\* path.Clean: the shortest equivalent path, "." for the empty one
PathClean(path) ==
  IF path = <<>> THEN <<".">>
  ELSE LET rooted == path[1] = "/"
           joined == JoinElements(CleanElements(Split(path, <<"/">>), <<>>, rooted))
       IN IF rooted THEN <<"/">> \o joined
          ELSE IF joined = <<>> THEN <<".">>
          ELSE joined

\* path.Dir: all but the last element of the path, cleaned
PathDir(path) ==
  LET slashes == { i \in DOMAIN path : path[i] = "/" }
      last    == IF slashes = {} THEN 0 ELSE CHOOSE i \in slashes : \A j \in slashes : j <= i
  IN PathClean(SubSeq(path, 1, last))

\* path.Join of two elements: the non-empty ones joined by a slash and
\* cleaned, the empty string when both are empty
PathJoin(a, b) ==
  IF a = <<>> /\ b = <<>> THEN <<>>
  ELSE IF a = <<>> THEN PathClean(b)
  ELSE IF b = <<>> THEN PathClean(a)
  ELSE PathClean(a \o <<"/">> \o b)

\* ChunkURL that does not replace {Bitrate}
ChunkURLNoCapital(baseURL, streamURL, bitrate, startTime) ==
  LET bitrateStr   == FormatUint(bitrate)
      starttimeStr == FormatUint(startTime)
      c1 == ReplaceAll(streamURL, TokBitrate, bitrateStr)
      c3 == ReplaceAll(c1, TokStartSpace, starttimeStr)
      c4 == ReplaceAll(c3, TokStartUnderscore, starttimeStr)
  IN [ret       |-> [baseURL EXCEPT !.Path = PathJoin(PathDir(baseURL.Path), c4)],
      baseURL   |-> baseURL,
      streamURL |-> streamURL]

\* ChunkURL(baseURL, stream, level, startTime): the URL returned and, since
\* baseURL and stream are pointers, what they point to after the call; u
\* and c are copies, so both are as before
ChunkURL(baseURL, streamURL, bitrate, startTime) ==
  LET bitrateStr   == FormatUint(bitrate)
      starttimeStr == FormatUint(startTime)
      c1 == ReplaceAll(streamURL, TokBitrate, bitrateStr)
      c2 == ReplaceAll(c1, TokBitrateCap, bitrateStr)
      c3 == ReplaceAll(c2, TokStartSpace, starttimeStr)
      c4 == ReplaceAll(c3, TokStartUnderscore, starttimeStr)
  IN [ret       |-> [baseURL EXCEPT !.Path = PathJoin(PathDir(baseURL.Path), c4)],
      baseURL   |-> baseURL,
      streamURL |-> streamURL]

\* what a URL template is made of: the four tokens, text, a slash, a brace,
\* a parent-directory element
Pieces ==
  { TokBitrate, TokBitrateCap, TokStartSpace, TokStartUnderscore,
    <<"Q">>, <<"/">>, <<"{">>, <<".", ".">> }

\* the concatenations of exactly n pieces
RECURSIVE Templates(_)
Templates(n) ==
  IF n = 0 THEN { <<>> }
  ELSE { piece \o rest : piece \in Pieces, rest \in Templates(n - 1) }

\* StreamIndex.URL of a manifest that has the attribute
StreamURLs == UNION { Templates(n) : n \in 0..MaxParts }

\* the paths of the manifest's URL
BasePaths ==
  { <<>>,
    <<"/", "M">>,
    <<"/", "a", "/", "b", "/", "M">>,
    <<"a", "/", "M">>,
    <<"/", "{", "B", "i", "t", "r", "a", "t", "e", "}", "/", "M">> }

BaseURLs ==
  { [Scheme |-> "https", Host |-> "example.com", Path |-> path,
     RawQuery |-> "k=v", Fragment |-> "top"] : path \in BasePaths }

\* Track.Bitrate
Bitrates == { 12 }

StartTimes == { 0, 30 }

ChunkInit ==
  /\ p = [BaseProcessor EXCEPT !.Codec = "avc1"]
  /\ hevcOk = TRUE
  /\ op = "none"
  /\ res = NoResult
  /\ tl = NoTimeline
  /\ cu \in { [called |-> FALSE, baseURL |-> b, streamURL |-> c, bitrate |-> r,
               startTime |-> t, before |-> [baseURL |-> b, streamURL |-> c],
               ret |-> b] :
                b \in BaseURLs, c \in StreamURLs, r \in Bitrates, t \in StartTimes }

CallChunkURL ==
  /\ ~cu.called
  /\ LET done == ChunkURL(cu.baseURL, cu.streamURL, cu.bitrate, cu.startTime)
     IN cu' = [cu EXCEPT !.called = TRUE, !.ret = done.ret,
                         !.baseURL = done.baseURL, !.streamURL = done.streamURL]
  /\ UNCHANGED <<p, hevcOk, op, res, tl>>

ChunkNext == CallChunkURL

ChunkSpec == ChunkInit /\ [][ChunkNext]_vars

(***************************************************************************)
(* Properties of ChunkURL                                                  *)
(***************************************************************************)
Tokens == { TokBitrate, TokBitrateCap, TokStartSpace, TokStartUnderscore }

HasToken(str) == \E tok \in Tokens : Index(str, tok) # 0

\* whether tok is at position i of str
TokenAt(str, i, tok) ==
  /\ i + Len(tok) - 1 <= Len(str)
  /\ SubSeq(str, i, i + Len(tok) - 1) = tok

\* the template read once from left to right, each token met on the way
\* giving way to the rendering of the bitrate or of the start time
RECURSIVE Substituted(_, _, _)
Substituted(str, bitrateStr, starttimeStr) ==
  IF str = <<>> THEN <<>>
  ELSE IF TokenAt(str, 1, TokBitrate) \/ TokenAt(str, 1, TokBitrateCap)
  THEN bitrateStr
       \o Substituted(SubSeq(str, Len(TokBitrate) + 1, Len(str)), bitrateStr, starttimeStr)
  ELSE IF TokenAt(str, 1, TokStartSpace) \/ TokenAt(str, 1, TokStartUnderscore)
  THEN starttimeStr
       \o Substituted(SubSeq(str, Len(TokStartSpace) + 1, Len(str)), bitrateStr, starttimeStr)
  ELSE <<Head(str)>> \o Substituted(Tail(str), bitrateStr, starttimeStr)

\* C14: the path of the URL that ChunkURL returns is the directory of the
\* base URL's path joined with the stream's URL template in which every
\* {bitrate} and {Bitrate} is the decimal bitrate of the track and every
\* {start time} and {start_time} the decimal start time; none of the four
\* tokens is left of the template, nor in the path when the base directory
\* holds none; every other component is the base URL's; the base URL and
\* the template are as they were before the call.
ChunkURLSubstitutes ==
  cu.called =>
    LET c == Substituted(cu.before.streamURL, FormatUint(cu.bitrate),
                         FormatUint(cu.startTime))
    IN /\ cu.ret.Path = PathJoin(PathDir(cu.before.baseURL.Path), c)
       /\ ~HasToken(c)
       /\ ~HasToken(PathDir(cu.before.baseURL.Path)) => ~HasToken(cu.ret.Path)
       /\ cu.ret.Scheme = cu.before.baseURL.Scheme
       /\ cu.ret.Host = cu.before.baseURL.Host
       /\ cu.ret.RawQuery = cu.before.baseURL.RawQuery
       /\ cu.ret.Fragment = cu.before.baseURL.Fragment
       /\ cu.baseURL = cu.before.baseURL
       /\ cu.streamURL = cu.before.streamURL

\* ChunkURL has answered for the template Q{Bitrate}{start time}, bitrate
\* 12, start time 30 and the base path /a/b/M with the path /a/b/Q1230
ChunkURLSubstitutesWitness ==
  /\ cu.called
  /\ cu.before.streamURL = <<"Q">> \o TokBitrateCap \o TokStartSpace
  /\ cu.before.baseURL.Path = <<"/", "a", "/", "b", "/", "M">>
  /\ cu.bitrate = 12
  /\ cu.startTime = 30
  /\ cu.ret.Path = <<"/", "a", "/", "b", "/", "Q", "1", "2", "3", "0">>
  /\ cu.ret.RawQuery = "k=v"

(***************************************************************************)
(* Properties of the header numbers and of the configuration parsers       *)
(***************************************************************************)
\* the first child of the given type of the box returned
ChildOfType(type) ==
  res.box.children[CHOOSE i \in DOMAIN res.box.children : res.box.children[i].type = type]

\* C15: the durations written in the movie header, the track header and
\* the media header all equal Duration * Timescale, not reduced modulo the
\* width of the 64-bit field, and the movie header's next track id equals
\* TrackID + 1, not reduced modulo the width of the 32-bit field.
HeaderDurationsExact ==
  /\ op = "CreateMvhdMp4Box" /\ Succeeded =>
       /\ res.box.fields.Duration = p.Duration * p.Timescale
       /\ res.box.fields.NextTrackID = p.TrackID + 1
  /\ op = "CreateTrakMp4Box" /\ Succeeded =>
       ChildOfType("tkhd").fields.Duration = p.Duration * p.Timescale
  /\ op = "CreateMdiaMp4Box" /\ Succeeded =>
       ChildOfType("mdhd").fields.Duration = p.Duration * p.Timescale

\* C16: the timescales written in the movie header and in the media header
\* both equal the Timescale of the MoovProcessor, whatever its value, so
\* that the header duration is the header timescale times the duration in
\* seconds.
HeaderTimescalesExact ==
  /\ op = "CreateMvhdMp4Box" /\ Succeeded =>
       /\ res.box.fields.Timescale = p.Timescale
       /\ res.box.fields.Duration = res.box.fields.Timescale * p.Duration
  /\ op = "CreateMdiaMp4Box" /\ Succeeded =>
       /\ ChildOfType("mdhd").fields.Timescale = p.Timescale
       /\ ChildOfType("mdhd").fields.Duration = ChildOfType("mdhd").fields.Timescale * p.Duration

\* C17: CreateAvcCMp4Box and CreateHvcCMp4Box end with a box or an error
\* for every CodecPrivateData, never with an index out of range.
ConfigurationNeverFaults ==
  op \in { "CreateAvcCMp4Box", "CreateHvcCMp4Box" } => ~res.panicked

====
